---- MODULE Spec2Model ----
(***************************************************************************)
(* A model of get-rvg-issues.py: the retry loops of search_issues and      *)
(* get_issue_details, the pagination of search_issues, the link resolver   *)
(* get_linked_issues, the orchestration in fetch_and_process_issues and    *)
(* the argument/credential handling of main.                               *)
(*                                                                         *)
(* The tracker is the environment: every response status is chosen by the  *)
(* server, and so are the size of each search page and the presence of a   *)
(* continuation token.  Python's None is the string "None"; a key of a     *)
(* link entry that is not in the dict is the string "MISSING".             *)
(***************************************************************************)
EXTENDS Integers, Sequences, FiniteSets, TLC

VARIABLES
    args,             \* the parsed command line and the credentials
    tracker,          \* the tracker's content: issue key -> issuelinks
    relation_names,   \* the link_types get_linked_issues is called with
    retry_after,      \* the Retry-After headers the server sends with a 429
    pc,               \* the position of the single thread of control
    exit_code,        \* -1 (running), 0 (return from main) or 1 (sys.exit(1))
    inflight,         \* number of HTTP requests sent and not yet answered
    attempt,          \* attempts made so far for the current logical request
    waits,            \* history: the sleeps of _respect_retry_after during the
                      \* current logical request, each with the header it read
    trace,            \* history: the logical requests issued, each with its
                      \* final status, and the records built, in order
    served,           \* history: the search pages answered with 200, in order
    all_issues,       \* search_issues: all_issues
    next_page_token,  \* search_issues: next_page_token (0 is None)
    issues,           \* fetch_and_process_issues: issues
    kidx,             \* fetch_and_process_issues: position in issue_keys
    idx,              \* fetch_and_process_issues: position in issues
    main_info,        \* fetch_and_process_issues: main_info
    linked_refs,      \* fetch_and_process_issues: linked_refs
    ridx,             \* fetch_and_process_issues: position in linked_refs
    linked_issues,    \* fetch_and_process_issues: linked_issues
    results,          \* fetch_and_process_issues: results
    reported,         \* history: the errors and warnings printed, in order
    call,             \* a function applied on its own: its name, or "None"
    argument,         \* a function applied on its own: its argument
    returned          \* a function applied on its own: what it returned

vars == <<args, tracker, relation_names, retry_after,
          pc, exit_code, inflight, attempt, waits, trace, served,
          all_issues, next_page_token, issues, kidx, idx, main_info,
          linked_refs, ridx, linked_issues, results, reported,
          call, argument, returned>>

-----------------------------------------------------------------------------
(* Bounds of the model *)

\* longest explicit key list (--issues)
MaxKeys == 2
\* most search pages the server answers before it stops giving a token
MaxPages == 2
\* most issues in one search page
MaxPageLen == 2
\* longest link list get_linked_issues is applied to on its own
MaxLinks == 2
\* most keys of a dict an extract_* helper is applied to on its own
MaxFields == 1
\* longest list an extract_* helper is applied to on its own
MaxItems == 1
\* most results save_grouped_csv is applied to on its own
MaxResults == 3

-----------------------------------------------------------------------------
(* Program constants *)

\* for attempt in range(6)
MaxAttempts == 6

\* the wait after a 429 without a usable Retry-After header, in seconds
DefaultWait == 5

JIRA_SERVER_URL == "https://riscv.atlassian.net"

LINK_TYPES_OF_INTEREST == <<"is direct-lined by", "is governed by">>

OutputFormats == {"text", "json", "csv", "grouped-csv"}

-----------------------------------------------------------------------------
(* Strings: str.lower() and the substring test `a in b` *)

UpperToLower ==
    [A |-> "a", B |-> "b", C |-> "c", D |-> "d", E |-> "e", F |-> "f",
     G |-> "g", H |-> "h", I |-> "i", J |-> "j", K |-> "k", L |-> "l",
     M |-> "m", N |-> "n", O |-> "o", P |-> "p", Q |-> "q", R |-> "r",
     S |-> "s", T |-> "t", U |-> "u", V |-> "v", W |-> "w", X |-> "x",
     Y |-> "y", Z |-> "z"]

LowerChar(c) == IF c \in DOMAIN UpperToLower THEN UpperToLower[c] ELSE c

RECURSIVE Lower(_)
Lower(s) ==
    IF Len(s) = 0 THEN ""
    ELSE LowerChar(SubSeq(s, 1, 1)) \o Lower(SubSeq(s, 2, Len(s)))

\* Python's `a in b` for strings; the empty string is in every string
StrIn(a, b) ==
    \E i \in 1..(Len(b) - Len(a) + 1) : SubSeq(b, i, i + Len(a) - 1) = a

-----------------------------------------------------------------------------
(* The tracker's data *)

\* the issues of the project, in the order a search returns them
Keys == <<"RVG-1", "RVG-2", "RVG-3">>

\* a key no issue has
UnknownKey == "RVG-9"

\* link types as the tracker describes them: name, inward and outward label
Governance == [name |-> "Governance", inward |-> "is governed by",
               outward |-> "governs"]
DirectLine == [name |-> "Direct Line", inward |-> "Is Direct-Lined By",
               outward |-> "direct-lines"]
Blocks     == [name |-> "Blocks", inward |-> "is blocked by",
               outward |-> "blocks"]
\* both labels carry a name of interest, a different one each
Matrix     == [name |-> "Matrix", inward |-> "is governed by",
               outward |-> "is direct-lined by"]
LinkTypes == {Governance, DirectLine, Blocks, Matrix}

\* a link entry of an issue: the other issue is on its inward or outward side
InwardLink(type, key)  == [type |-> type, inwardIssue |-> key,
                           outwardIssue |-> "MISSING"]
OutwardLink(type, key) == [type |-> type, inwardIssue |-> "MISSING",
                           outwardIssue |-> key]

\* one governance tree with a cross link, a self link and a dangling link
TrackerTree ==
    [k \in {Keys[1], Keys[2], Keys[3]} |->
        CASE k = Keys[1] -> <<InwardLink(Governance, Keys[2]),
                              OutwardLink(Blocks, Keys[3]),
                              InwardLink(DirectLine, Keys[3])>>
          [] k = Keys[2] -> <<OutwardLink(Governance, Keys[1]),
                              InwardLink(DirectLine, Keys[2])>>
          [] OTHER       -> <<InwardLink(Governance, UnknownKey)>>]

\* a cycle of governance links, and an issue without links
TrackerCycle ==
    [k \in {Keys[1], Keys[2], Keys[3]} |->
        CASE k = Keys[1] -> <<OutwardLink(Matrix, Keys[2])>>
          [] k = Keys[2] -> <<InwardLink(Governance, Keys[1]),
                              InwardLink(Governance, Keys[1])>>
          [] OTHER       -> <<>>]

Trackers == {TrackerTree, TrackerCycle}

\* the RawIssue the tracker returns for key k
RawIssue(db, k) ==
    [key |-> k,
     fields |-> [summary |-> "Unit " \o k, issuelinks |-> db[k]]]

-----------------------------------------------------------------------------
(* The JSON values of issue fields, tagged with their Python type.  v is a  *)
(* string for a scalar (str(x) for None, a bool or a number), a function    *)
(* from keys to values for a dict, and a sequence of values for a list.     *)

Null        == [kind |-> "null", v |-> "None"]
Str(s)      == [kind |-> "str", v |-> s]
Bool(b)     == [kind |-> "bool", v |-> IF b THEN "True" ELSE "False"]
Num(digits) == [kind |-> "num", v |-> digits]
Dict(f)     == [kind |-> "dict", v |-> f]
List(items) == [kind |-> "list", v |-> items]

\* how a call ends: with a value, or with an exception
Returns(x) == [kind |-> "return", v |-> x]
Raises(e) == [kind |-> "raise", v |-> e]

\* bool(x)
Truthy(x) ==
    CASE x.kind = "null" -> FALSE
      [] x.kind = "str"  -> x.v # ""
      [] x.kind = "bool" -> x.v = "True"
      [] x.kind = "num"  -> x.v # "0"
      [] x.kind = "dict" -> DOMAIN x.v # {}
      [] x.kind = "list" -> Len(x.v) > 0

\* str(x); of a list only `[]` is told from the others
StrOf(x) ==
    IF x.kind \in {"null", "str", "bool", "num"} THEN x.v
    ELSE IF x.kind = "list" /\ Len(x.v) = 0 THEN "[]"
    ELSE "[...]"

\* d.get(k) and d.get(k, default)
GetOr(d, k, default) == IF k \in DOMAIN d.v THEN d.v[k] ELSE default
Get(d, k) == GetOr(d, k, Null)

\* `a or b`
Or(a, b) == IF Truthy(a) THEN a ELSE b

-----------------------------------------------------------------------------
(* extract_user_info, extract_emails, extract_url_field,                    *)
(* extract_dropdown_value, parse_checkbox                                   *)

extract_user_info(user_field) ==
    IF ~Truthy(user_field)
    THEN [displayName |-> Null, emailAddress |-> Null, accountId |-> Null]
    ELSE IF user_field.kind = "dict"
    THEN [displayName |-> Get(user_field, "displayName"),
          emailAddress |-> Get(user_field, "emailAddress"),
          accountId |-> Get(user_field, "accountId")]
    ELSE IF user_field.kind = "str"
    THEN [displayName |-> user_field, emailAddress |-> Null,
          accountId |-> Null]
    ELSE [displayName |-> Null, emailAddress |-> Null, accountId |-> Null]

\* re.split(r"[,;\s]+", s) from position i on, cur being the part read so
\* far; the empty parts are dropped by the caller
RECURSIVE Split(_, _, _)
Split(s, i, cur) ==
    IF i > Len(s) THEN <<cur>>
    ELSE IF SubSeq(s, i, i) \in {",", ";", " "}
    THEN <<cur>> \o Split(s, i + 1, "")
    ELSE Split(s, i + 1, cur \o SubSeq(s, i, i))

\* [p.strip() for p in parts if p.strip() and "@" in p]
RECURSIVE EmailParts(_, _)
EmailParts(parts, n) ==
    IF n = 0 THEN <<>>
    ELSE EmailParts(parts, n - 1)
         \o (IF parts[n] # "" /\ StrIn("@", parts[n])
             THEN <<Str(parts[n])>> ELSE <<>>)

\* the loop `for item in email_field`
RECURSIVE EmailItems(_, _)
EmailItems(items, n) ==
    IF n = 0 THEN <<>>
    ELSE LET item == items[n]
         IN  EmailItems(items, n - 1)
             \o (IF item.kind = "dict"
                 THEN IF Truthy(Get(item, "emailAddress"))
                      THEN <<Get(item, "emailAddress")>> ELSE <<>>
                 ELSE IF item.kind = "str" /\ StrIn("@", item.v)
                 THEN <<item>>
                 ELSE <<>>)

extract_emails(email_field) ==
    IF ~Truthy(email_field) THEN <<>>
    ELSE IF email_field.kind = "str"
    THEN LET parts == Split(email_field.v, 1, "")
         IN  EmailParts(parts, Len(parts))
    ELSE IF email_field.kind = "list"
    THEN EmailItems(email_field.v, Len(email_field.v))
    ELSE <<>>

extract_url_field(field_value) ==
    IF ~Truthy(field_value) THEN Null
    ELSE IF field_value.kind = "str" THEN field_value
    ELSE IF field_value.kind = "dict"
    THEN Or(Get(field_value, "href"), Get(field_value, "url"))
    ELSE Null

extract_dropdown_value(field_value) ==
    IF ~Truthy(field_value) THEN Null
    ELSE IF field_value.kind = "str" THEN field_value
    ELSE IF field_value.kind = "dict"
    THEN Or(Get(field_value, "value"), Get(field_value, "name"))
    ELSE Null

\* `x.lower() == "yes"`: only a str has the method lower
IsYes(x) ==
    IF x.kind = "str" THEN Bool(Lower(x.v) = "yes")
    ELSE Raises("AttributeError")

\* parse_checkbox(val): a bool value, or the exception that leaves it
parse_checkbox(val) ==
    IF val.kind = "null" THEN Bool(FALSE)
    ELSE IF val.kind = "bool" THEN val
    ELSE IF val.kind = "list" /\ Len(val.v) > 0
    THEN LET first == val.v[1]
         IN  IF first.kind = "dict"
             THEN IsYes(GetOr(first, "value", Str("")))
             ELSE Bool(Lower(StrOf(first)) = "yes")
    ELSE IF val.kind = "dict"
    THEN IsYes(GetOr(val, "value", Str("")))
    ELSE Bool(Lower(StrOf(val)) \in {"yes", "true", "1"})

-----------------------------------------------------------------------------
(* get_issue_url, process_issue *)

get_issue_url(issue_key) == JIRA_SERVER_URL \o "/browse/" \o issue_key

\* the custom field ids
CF_CHAIR == "customfield_10092"
CF_CHAIR_EMAIL == "customfield_10093"
CF_VICE_CHAIR == "customfield_10099"
CF_VICE_CHAIR_EMAIL == "customfield_10100"
CF_CHAIR_AFFILIATION == "customfield_10096"
CF_VICE_CHAIR_AFFILIATION == "customfield_10103"
CF_CHARTER == "customfield_10086"
CF_ACTIVITY_LEVEL == "customfield_10145"
CF_GROUP_CREATION_DATE == "customfield_10090"
CF_IS_ACTING_CHAIR == "customfield_10094"
CF_IS_ACTING_VICE_CHAIR == "customfield_10102"

\* issue_data.get("fields", {}): the fields as a function from ids to values
FieldsOf(issue_data) ==
    IF "fields" \in DOMAIN issue_data THEN issue_data.fields
    ELSE [id \in {} |-> Null]

\* fields.get(id)
Field(fields, id) == IF id \in DOMAIN fields THEN fields[id] ELSE Null

\* issue_data.get("key", "")
KeyOf(issue_data) ==
    IF "key" \in DOMAIN issue_data THEN issue_data.key ELSE ""

\* a role's email that prefers the one in the person reference
RoleEmailFromPersonFirst(email_raw, info) ==
    IF Truthy(info.emailAddress) THEN info.emailAddress ELSE email_raw

\* `email_raw if isinstance(email_raw, str) else info.get("emailAddress")`
RoleEmail(email_raw, info) ==
    IF email_raw.kind = "str" THEN email_raw ELSE info.emailAddress

\* a list of emails that is not checked for the email it has already
EmailsWithDuplicates(chair_email, vice_chair_email) ==
    (IF Truthy(chair_email) THEN <<chair_email>> ELSE <<>>)
    \o (IF Truthy(vice_chair_email) THEN <<vice_chair_email>> ELSE <<>>)

\* "Collect all emails"
Emails(chair_email, vice_chair_email) ==
    LET emails == IF Truthy(chair_email) THEN <<chair_email>> ELSE <<>>
    IN  IF Truthy(vice_chair_email)
           /\ \A i \in DOMAIN emails : emails[i] # vice_chair_email
        THEN Append(emails, vice_chair_email)
        ELSE emails

\* an affiliation: the label of a dict, any other value as it is
Affiliation(raw) ==
    IF raw.kind = "dict" THEN Or(Get(raw, "value"), Get(raw, "name")) ELSE raw

\* what process_issue returns, or the exception that leaves it.  key,
\* summary and url are str; the other entries are tagged values.  The
\* entries left out are made like charter (confluence_space, mailing_list,
\* meeting_notes), like activity_level (the election months and years) and
\* like creation_date (recharter_approval_date).
process_issue(issue_data) ==
    LET fields           == FieldsOf(issue_data)
        issue_key        == KeyOf(issue_data)
        chair_info       == extract_user_info(Field(fields, CF_CHAIR))
        chair_email      == RoleEmail(Field(fields, CF_CHAIR_EMAIL),
                                      chair_info)
        vice_chair_info  == extract_user_info(Field(fields, CF_VICE_CHAIR))
        vice_chair_email == RoleEmail(Field(fields, CF_VICE_CHAIR_EMAIL),
                                      vice_chair_info)
        status_raw       == Field(fields, "status")
        is_acting_chair  == parse_checkbox(Field(fields, CF_IS_ACTING_CHAIR))
        is_acting_vice_chair ==
            parse_checkbox(Field(fields, CF_IS_ACTING_VICE_CHAIR))
    IN  IF is_acting_chair.kind = "raise" THEN is_acting_chair
        ELSE IF is_acting_vice_chair.kind = "raise" THEN is_acting_vice_chair
        ELSE
        [key |-> issue_key,
         summary |-> IF "summary" \in DOMAIN fields THEN fields.summary
                     ELSE "",
         url |-> get_issue_url(issue_key),
         chair |-> chair_info.displayName,
         chair_email |-> chair_email,
         chair_affiliation |->
             Affiliation(Field(fields, CF_CHAIR_AFFILIATION)),
         vice_chair |-> vice_chair_info.displayName,
         vice_chair_email |-> vice_chair_email,
         vice_chair_affiliation |->
             Affiliation(Field(fields, CF_VICE_CHAIR_AFFILIATION)),
         emails |-> Emails(chair_email, vice_chair_email),
         status |-> IF status_raw.kind = "dict" THEN Get(status_raw, "name")
                    ELSE Null,
         charter |-> extract_url_field(Field(fields, CF_CHARTER)),
         activity_level |->
             extract_dropdown_value(Field(fields, CF_ACTIVITY_LEVEL)),
         creation_date |-> Field(fields, CF_GROUP_CREATION_DATE),
         is_acting_chair |-> is_acting_chair,
         is_acting_vice_chair |-> is_acting_vice_chair]

\* did the call end with an exception?
Raised(r) == "kind" \in DOMAIN r /\ r.kind = "raise"

-----------------------------------------------------------------------------
(* get_linked_issues *)

\* the loop without its breaks: the last name that matches decides
RECURSIVE MatchLinkTypeNoBreak(_, _, _)
MatchLinkTypeNoBreak(link, link_types, i) ==
    IF i > Len(link_types) THEN <<"None", "None">>
    ELSE LET lt_lower     == Lower(link_types[i])
             inward_name  == Lower(link.type.inward)
             outward_name == Lower(link.type.outward)
             later        == MatchLinkTypeNoBreak(link, link_types, i + 1)
         IN  IF later[2] # "None" THEN later
             ELSE IF StrIn(lt_lower, inward_name)
                     /\ link.inwardIssue # "MISSING"
             THEN <<link.inwardIssue, "inward">>
             ELSE IF StrIn(lt_lower, outward_name)
                     /\ link.outwardIssue # "MISSING"
             THEN <<link.outwardIssue, "outward">>
             ELSE later

\* the loop `for lt in link_types` from position i, with its two breaks:
\* <<linked_issue, link_direction>>
RECURSIVE MatchLinkType(_, _, _)
MatchLinkType(link, link_types, i) ==
    IF i > Len(link_types) THEN <<"None", "None">>
    ELSE LET lt_lower     == Lower(link_types[i])
             inward_name  == Lower(link.type.inward)
             outward_name == Lower(link.type.outward)
         IN  IF StrIn(lt_lower, inward_name) /\ link.inwardIssue # "MISSING"
             THEN <<link.inwardIssue, "inward">>
             ELSE IF StrIn(lt_lower, outward_name)
                     /\ link.outwardIssue # "MISSING"
             THEN <<link.outwardIssue, "outward">>
             ELSE MatchLinkType(link, link_types, i + 1)

\* a loop that puts each new edge in front of the ones found before
RECURSIVE ScanLinksPrepending(_, _, _)
ScanLinksPrepending(issue_links, link_types, j) ==
    IF j > Len(issue_links) THEN <<>>
    ELSE LET link  == issue_links[j]
             found == MatchLinkType(link, link_types, 1)
             rest  == ScanLinksPrepending(issue_links, link_types, j + 1)
         IN  IF found[1] # "None"
             THEN rest \o <<[key |-> found[1], link_type |-> link.type.name,
                             direction |-> found[2]]>>
             ELSE rest

\* the loop `for link in issue_links` from position j
RECURSIVE ScanLinks(_, _, _)
ScanLinks(issue_links, link_types, j) ==
    IF j > Len(issue_links) THEN <<>>
    ELSE LET link  == issue_links[j]
             found == MatchLinkType(link, link_types, 1)
             rest  == ScanLinks(issue_links, link_types, j + 1)
         IN  IF found[1] # "None"
             THEN <<[key |-> found[1], link_type |-> link.type.name,
                     direction |-> found[2]]>> \o rest
             ELSE rest

get_linked_issues(issue_data, link_types) ==
    ScanLinks(issue_data.fields.issuelinks, link_types, 1)

-----------------------------------------------------------------------------
(* The command line, the environment and the server *)

\* the keys --issues may name: two issues of the tracker and an unknown one
AskedKeys == {Keys[1], Keys[2], UnknownKey}

\* --issues: nargs="+", or not given (the empty sequence)
KeyLists == UNION {[1..n -> AskedKeys] : n \in 0..MaxKeys}

\* JIRA_USER_EMAIL / JIRA_API_TOKEN: unset, or set
EnvValues == {"None", "set"}

ArgSets ==
    [JIRA_USER_EMAIL : EnvValues, JIRA_API_TOKEN : EnvValues,
     output : OutputFormats, save : {"None", "out.file"},
     list_link_types : BOOLEAN, issue_keys : KeyLists]

\* the statuses a search or a link type listing can be answered with once the
\* session's own retries are over; the code treats every status other than
\* 200 and 429 like 403 there
Statuses == {200, 403, 429}

\* the statuses the tracker can answer a GET of issue key k with: an issue it
\* has is delivered, refused or rate limited, a key it does not have is not
\* found or rate limited; get_issue_details treats every status other than
\* 200, 404 and 429 like 403
GetStatuses(db, k) == IF k \in DOMAIN db THEN Statuses ELSE {404, 429}

\* the search hits from offset + 1 on, at most n of them
PageOf(db, offset, n) ==
    LET last == IF offset + n > Len(Keys) THEN Len(Keys) ELSE offset + n
    IN  [i \in 1..(last - offset) |-> RawIssue(db, Keys[offset + i])]

\* an entry of trace: a logical request ("search", "get", "linktypes") or the
\* building of a primary's record ("build"); for is 0 for the retrieval of
\* primary issues and the position of the primary a linked issue is fetched
\* for; status and n (the number of issues delivered) are set by the final
\* response
Event(op, key, for) ==
    [op |-> op, key |-> key, for |-> for, status |-> 0, n |-> 0]

Answered(log, status, n) ==
    [log EXCEPT ![Len(log)] = [@ EXCEPT !.status = status, !.n = n]]

\* an entry of reported: a printed error or warning; at is the number of
\* trace entries when it was printed
Said(level, what, key, status, at) ==
    [level |-> level, what |-> what, key |-> key, status |-> status,
     at |-> at]

-----------------------------------------------------------------------------
(* _respect_retry_after *)

DigitValue ==
    ("0" :> 0) @@ ("1" :> 1) @@ ("2" :> 2) @@ ("3" :> 3) @@ ("4" :> 4) @@
    ("5" :> 5) @@ ("6" :> 6) @@ ("7" :> 7) @@ ("8" :> 8) @@ ("9" :> 9)

\* str.strip() as int() applies it to its argument, for blanks
RECURSIVE Strip(_)
Strip(s) ==
    IF Len(s) = 0 THEN s
    ELSE IF SubSeq(s, 1, 1) = " " THEN Strip(SubSeq(s, 2, Len(s)))
    ELSE IF SubSeq(s, Len(s), Len(s)) = " "
    THEN Strip(SubSeq(s, 1, Len(s) - 1))
    ELSE s

\* the value of the first n characters of a string of decimal digits
RECURSIVE DigitsValue(_, _)
DigitsValue(s, n) ==
    IF n = 0 THEN 0
    ELSE 10 * DigitsValue(s, n - 1) + DigitValue[SubSeq(s, n, n)]

\* int(s) for a string: <<the integer>>, or the empty sequence for ValueError;
\* blanks around the number and a sign are accepted, anything else but
\* decimal digits is not
int(s) ==
    LET t      == Strip(s)
        signed == Len(t) > 0 /\ SubSeq(t, 1, 1) \in {"+", "-"}
        digits == IF signed THEN SubSeq(t, 2, Len(t)) ELSE t
    IN  IF Len(digits) = 0
           \/ \E i \in 1..Len(digits) :
                  SubSeq(digits, i, i) \notin DOMAIN DigitValue
        THEN <<>>
        ELSE IF signed /\ SubSeq(t, 1, 1) = "-"
        THEN <<0 - DigitsValue(digits, Len(digits))>>
        ELSE <<DigitsValue(digits, Len(digits))>>

\* a wait that ignores the header
SleepAlwaysDefault(ra) == DefaultWait

\* sleep_s: `max(int(ra), 1) if ra else 5`, and 5 on ValueError
SleepSeconds(ra) ==
    IF ra = "None" \/ ra = "" THEN DefaultWait
    ELSE LET v == int(ra)
         IN  IF Len(v) = 0 THEN DefaultWait
             ELSE IF v[1] > 1 THEN v[1] ELSE 1

\* the sleeps of the current request after a response with this status and
\* this Retry-After header (the header is "None" when the response has none)
respect_retry_after(slept, status, ra) ==
    IF status # 429 THEN slept
    ELSE Append(slept, [header |-> ra, slept |-> SleepSeconds(ra)])

\* the Retry-After headers of the runs the waits are followed in: none, an
\* empty one, integers, and one that is no number
RetryAfterHeaders == {"None", "", "3", "0", "-2", "12", "soon"}

-----------------------------------------------------------------------------
(* The retry loop shared by search_issues and get_issue_details:           *)
(*     for attempt in range(6): resp = ...; if 429: wait; continue; break  *)

\* a loop that allows one attempt too many
RetryAgainOffByOne(status, sent) == status = 429 /\ sent < MaxAttempts + 1

\* after `sent` attempts, does a response with this status lead to another?
RetryAgain(status, sent) == status = 429 /\ sent < MaxAttempts

-----------------------------------------------------------------------------
\* the function applied on its own; a run of main applies none
alone == <<call, argument, returned>>

NoCall == call = "None" /\ argument = "None" /\ returned = "None"

Init ==
    /\ args \in ArgSets
    /\ tracker \in Trackers
    /\ relation_names = LINK_TYPES_OF_INTEREST
    /\ retry_after = {"None"}
    /\ pc = "main"
    /\ exit_code = -1
    /\ inflight = 0
    /\ attempt = 0
    /\ waits = <<>>
    /\ trace = <<>>
    /\ served = <<>>
    /\ all_issues = <<>>
    /\ next_page_token = 0
    /\ issues = <<>>
    /\ kidx = 1
    /\ idx = 1
    /\ main_info = Null
    /\ linked_refs = <<>>
    /\ ridx = 1
    /\ linked_issues = <<>>
    /\ results = <<>>
    /\ reported = <<>>
    /\ NoCall

\* what a run is given and never changes
config == <<args, tracker, relation_names, retry_after>>

pipeline == <<served, all_issues, next_page_token, issues, kidx, idx,
              main_info, linked_refs, ridx, linked_issues, results>>

\* main, up to the call of fetch_and_process_issues and into its first branch
Main ==
    /\ pc = "main"
    /\ IF args.JIRA_USER_EMAIL = "None" \/ args.JIRA_API_TOKEN = "None"
       THEN /\ reported' = Append(reported,
                                  Said("error", "credentials", "None", 0,
                                       Len(trace)))
            /\ exit_code' = 1
            /\ pc' = "exit"
       ELSE /\ UNCHANGED <<reported, exit_code>>
            /\ pc' = IF args.list_link_types THEN "list_link_types"
                     ELSE IF Len(args.issue_keys) > 0 THEN "fetch_keys"
                     ELSE "search"
    /\ UNCHANGED <<config, alone, inflight, attempt, waits, trace, pipeline>>

\* --list-link-types: one GET outside the pipeline, then return
ListLinkTypesSend ==
    /\ pc = "list_link_types"
    /\ inflight = 0
    /\ inflight' = 1
    /\ trace' = Append(trace, Event("linktypes", "None", 0))
    /\ UNCHANGED <<config, alone, pc, exit_code, attempt, waits, pipeline,
                   reported>>

ListLinkTypesRecv ==
    /\ pc = "list_link_types"
    /\ inflight = 1
    /\ \E status \in Statuses :
          /\ reported' = IF status = 200 THEN reported
                         ELSE Append(reported,
                                     Said("error", "linktypes", "None",
                                          status, Len(trace)))
          /\ trace' = Answered(trace, status, 0)
    /\ inflight' = 0
    /\ exit_code' = 0
    /\ pc' = "exit"
    /\ UNCHANGED <<config, alone, attempt, waits, pipeline>>

-----------------------------------------------------------------------------
(* search_issues *)

\* a loop that stops on a page that carries a token
LastPageInverted(token) == token # 0

\* `if not next_page_token: break`
LastPage(token) == token = 0

\* a search that drops the pages it has when a page fails
ResultOnErrorEmpty(accumulated) == <<>>

\* `return all_issues` on a status other than 200
ResultOnError(accumulated) == accumulated

SearchSend ==
    /\ pc = "search"
    /\ inflight = 0
    /\ inflight' = 1
    /\ attempt' = attempt + 1
    /\ trace' = IF attempt = 0
                THEN Append(trace, Event("search", "None", 0))
                ELSE trace
    /\ UNCHANGED <<config, alone, pc, exit_code, waits, pipeline, reported>>

SearchRecv ==
    /\ pc = "search"
    /\ inflight = 1
    /\ inflight' = 0
    /\ \E status \in Statuses, n \in 0..MaxPageLen, more \in BOOLEAN,
          ra \in retry_after :
          LET offset == IF next_page_token = 0 THEN 0
                        ELSE next_page_token - 1
              page   == PageOf(tracker, offset, n)
              token  == IF more /\ Len(served) + 1 < MaxPages
                        THEN offset + Len(page) + 1 ELSE 0
          IN  IF RetryAgain(status, attempt)
              THEN /\ waits' = respect_retry_after(waits, status, ra)
                   /\ UNCHANGED <<pc, attempt, trace, served, all_issues,
                                   next_page_token, issues, reported>>
              ELSE IF status # 200
              THEN /\ waits' = <<>>
                   /\ reported' = Append(reported,
                                    Said("error", "search", "None", status,
                                         Len(trace)))
                   /\ trace' = Answered(trace, status, 0)
                   /\ issues' = ResultOnError(all_issues)
                   /\ pc' = "process"
                   /\ attempt' = 0
                   /\ UNCHANGED <<served, all_issues, next_page_token>>
              ELSE /\ waits' = <<>>
                   /\ all_issues' = all_issues \o page
                   /\ trace' = Answered(trace, status, Len(page))
                   /\ served' = Append(served,
                                       [issues |-> page, token |-> token])
                   /\ next_page_token' = token
                   /\ attempt' = 0
                   /\ IF LastPage(token)
                      THEN issues' = all_issues' /\ pc' = "process"
                      ELSE UNCHANGED <<issues, pc>>
                   /\ UNCHANGED reported
    /\ UNCHANGED <<config, alone, exit_code, kidx, idx, main_info,
                   linked_refs, ridx, linked_issues, results>>

-----------------------------------------------------------------------------
(* get_issue_details *)

\* what get_issue_details returns for the final response: <<the issue>>, or
\* the empty sequence for None
IssueOrNone(db, key, status) ==
    IF status = 200 THEN <<RawIssue(db, key)>> ELSE <<>>

\* what get_issue_details prints for the final response
Warned(said, key, status, at) ==
    IF status = 200 THEN said
    ELSE IF status = 404
    THEN Append(said, Said("warning", "not found", key, 404, at))
    ELSE Append(said, Said("warning", "error fetching", key, status, at))

-----------------------------------------------------------------------------
(* fetch_and_process_issues *)

\* the loop `for key in issue_keys`
KeySend ==
    /\ pc = "fetch_keys"
    /\ inflight = 0
    /\ inflight' = 1
    /\ attempt' = attempt + 1
    /\ trace' = IF attempt = 0
                THEN Append(trace, Event("get", args.issue_keys[kidx], 0))
                ELSE trace
    /\ UNCHANGED <<config, alone, pc, exit_code, waits, pipeline, reported>>

\* a loop over the keys that ends at the first error status
NextKeyUnlessError(status, k) ==
    IF status \notin {200, 404} THEN Len(args.issue_keys) + 1 ELSE k + 1

\* a loop over the keys that ends at the first key not found
NextKeyUnlessNotFound(status, k) ==
    IF status = 404 THEN Len(args.issue_keys) + 1 ELSE k + 1

\* after the response for issue_keys[k]: the loop goes on with the next key
NextKey(status, k) == k + 1

KeyRecv ==
    /\ pc = "fetch_keys"
    /\ inflight = 1
    /\ inflight' = 0
    /\ \E status \in GetStatuses(tracker, args.issue_keys[kidx]),
          ra \in retry_after :
          LET key   == args.issue_keys[kidx]
              issue == IssueOrNone(tracker, key, status)
          IN  IF RetryAgain(status, attempt)
              THEN /\ waits' = respect_retry_after(waits, status, ra)
                   /\ UNCHANGED <<pc, attempt, trace, issues, kidx,
                                   reported>>
              ELSE /\ attempt' = 0
                   /\ waits' = <<>>
                   /\ reported' = Warned(reported, key, status, Len(trace))
                   /\ trace' = Answered(trace, status, Len(issue))
                   /\ issues' = IF Len(issue) > 0
                                THEN Append(issues, issue[1])
                                ELSE issues
                   /\ kidx' = NextKey(status, kidx)
                   /\ pc' = IF kidx' > Len(args.issue_keys) THEN "process"
                            ELSE "fetch_keys"
    /\ UNCHANGED <<config, alone, exit_code, served, all_issues,
                   next_page_token, idx, main_info, linked_refs, ridx,
                   linked_issues, results>>

\* the refs of a primary issue whose linked issue is fetched once only,
\* however many of its edges lead to it
RefsToFetchOnce(issue_data) ==
    LET refs == get_linked_issues(issue_data, relation_names)
        Fresh(j) == \A h \in 1..(j - 1) : refs[h].key # refs[j].key
        Keep[j \in 0..Len(refs)] ==
            IF j = 0 THEN <<>>
            ELSE Keep[j - 1] \o (IF Fresh(j) THEN <<refs[j]>> ELSE <<>>)
    IN  Keep[Len(refs)]

\* the refs `for ref in linked_refs` fetches a linked issue for: every edge
\* get_linked_issues resolved
RefsToFetch(issue_data) == get_linked_issues(issue_data, relation_names)

\* the head of the loop `for idx, issue_data in enumerate(issues, 1)`, up to
\* `linked_issues = []`
Process ==
    /\ pc = "process"
    /\ idx <= Len(issues)
    /\ LET built == process_issue(issues[idx])
       IN  IF Raised(built)
           THEN \* the exception leaves main: a traceback and exit status 1
                /\ reported' = Append(reported,
                                      Said("error", built.v,
                                           KeyOf(issues[idx]), 0,
                                           Len(trace)))
                /\ exit_code' = 1
                /\ pc' = "exit"
                /\ UNCHANGED <<main_info, linked_refs, linked_issues, ridx,
                               trace>>
           ELSE /\ main_info' = built
                /\ linked_refs' = RefsToFetch(issues[idx])
                /\ linked_issues' = <<>>
                /\ ridx' = 1
                /\ trace' = Append(trace,
                                   Event("build", KeyOf(issues[idx]), idx))
                /\ pc' = "linked"
                /\ UNCHANGED <<exit_code, reported>>
    /\ UNCHANGED <<config, alone, inflight, attempt, waits, served,
                   all_issues, next_page_token, issues, kidx, idx, results>>

\* a loop over the refs that ends at the first failed fetch
NextRefUnlessFailed(status, r) ==
    IF status # 200 THEN Len(linked_refs) + 1 ELSE r + 1

\* after the response for linked_refs[r]: the loop goes on with the next ref
NextRef(status, r) == r + 1

\* a fetch that is issued without waiting for the answer to the last one
LinkedSendAhead ==
    /\ pc = "linked"
    /\ ridx <= Len(linked_refs)
    /\ inflight' = inflight + 1
    /\ attempt' = attempt + 1
    /\ trace' = IF attempt = 0
                THEN Append(trace, Event("get", linked_refs[ridx].key, idx))
                ELSE trace
    /\ UNCHANGED <<config, alone, pc, exit_code, waits, pipeline, reported>>

\* the loop `for ref in linked_refs`
LinkedSend ==
    /\ pc = "linked"
    /\ ridx <= Len(linked_refs)
    /\ inflight = 0
    /\ inflight' = 1
    /\ attempt' = attempt + 1
    /\ trace' = IF attempt = 0
                THEN Append(trace, Event("get", linked_refs[ridx].key, idx))
                ELSE trace
    /\ UNCHANGED <<config, alone, pc, exit_code, waits, pipeline, reported>>

LinkedRecv ==
    /\ pc = "linked"
    /\ inflight = 1
    /\ inflight' = 0
    /\ \E status \in GetStatuses(tracker, linked_refs[ridx].key),
          ra \in retry_after :
          LET ref         == linked_refs[ridx]
              linked_data == IssueOrNone(tracker, ref.key, status)
              linked_info == IF Len(linked_data) > 0
                             THEN process_issue(linked_data[1]) ELSE Null
              said        == Warned(reported, ref.key, status, Len(trace))
          IN  IF RetryAgain(status, attempt)
              THEN /\ waits' = respect_retry_after(waits, status, ra)
                   /\ UNCHANGED <<pc, exit_code, attempt, trace, ridx,
                                   linked_issues, reported>>
              ELSE /\ attempt' = 0
                   /\ waits' = <<>>
                   /\ trace' = Answered(trace, status, Len(linked_data))
                   /\ IF Raised(linked_info)
                      THEN \* the exception leaves main
                           /\ reported' = Append(said,
                                                 Said("error", linked_info.v,
                                                      ref.key, 0, Len(trace)))
                           /\ exit_code' = 1
                           /\ pc' = "exit"
                           /\ UNCHANGED <<linked_issues, ridx>>
                      ELSE /\ reported' = said
                           /\ linked_issues' =
                                 IF Len(linked_data) > 0
                                 THEN Append(linked_issues,
                                         [info |-> linked_info,
                                          link_type |-> ref.link_type,
                                          link_direction |-> ref.direction])
                                 ELSE linked_issues
                           /\ ridx' = NextRef(status, ridx)
                           /\ UNCHANGED <<pc, exit_code>>
    /\ UNCHANGED <<config, alone, served, all_issues, next_page_token,
                   issues, kidx, idx, main_info, linked_refs, results>>

\* "Combine results", the end of one iteration over issues
Combine ==
    /\ pc = "linked"
    /\ ridx > Len(linked_refs)
    /\ inflight = 0
    /\ results' = Append(results, [issue |-> main_info,
                                   linked_issues |-> linked_issues])
    /\ idx' = idx + 1
    /\ pc' = "process"
    /\ UNCHANGED <<config, alone, exit_code, inflight, attempt, waits, trace,
                   served,
                   all_issues, next_page_token, issues, kidx, main_info,
                   linked_refs, ridx, linked_issues, reported>>

\* `return results`
Return ==
    /\ pc = "process"
    /\ idx > Len(issues)
    /\ pc' = "output"
    /\ UNCHANGED <<config, alone, exit_code, inflight, attempt, waits, trace,
                   pipeline, reported>>

-----------------------------------------------------------------------------
(* main, after fetch_and_process_issues *)

\* the exit status of main once it has the results
ExitStatus(a, res) ==
    IF Len(res) = 0 THEN 0
    ELSE IF a.output \in {"csv", "grouped-csv"} /\ a.save = "None" THEN 1
    ELSE 0

Output ==
    /\ pc = "output"
    /\ exit_code' = ExitStatus(args, results)
    /\ reported' = IF exit_code' = 1
                   THEN Append(reported,
                               Said("error", "requires --save", "None", 0,
                                    Len(trace)))
                   ELSE reported
    /\ pc' = "exit"
    /\ UNCHANGED <<config, alone, inflight, attempt, waits, trace, pipeline>>

Next ==
    \/ Main
    \/ ListLinkTypesSend
    \/ ListLinkTypesRecv
    \/ SearchSend
    \/ SearchRecv
    \/ KeySend
    \/ KeyRecv
    \/ Process
    \/ LinkedSend
    \/ LinkedRecv
    \/ Combine
    \/ Return
    \/ Output

Spec == Init /\ [][Next]_vars

\* the runs the retry loop is followed to its end in: the listing of link
\* types, a search, and a key list with a known and an unknown key
InitRetry ==
    /\ Init
    /\ args.JIRA_USER_EMAIL = "set" /\ args.JIRA_API_TOKEN = "set"
    /\ args.output = "text" /\ args.save = "None"
    /\ args.issue_keys \in {<<>>, <<Keys[1], UnknownKey>>}

\* a step of one of the retry loops
RetryStep ==
    \/ SearchSend \/ SearchRecv
    \/ KeySend \/ KeyRecv
    \/ LinkedSend \/ LinkedRecv

\* inside a retry loop the single thread always takes its next step: an
\* attempt that is due is made, and every attempt is answered (an attempt
\* without an answer ends at HTTP_TIMEOUT_SECS)
FairSpec == InitRetry /\ [][Next]_vars /\ WF_vars(RetryStep)

\* Process can be taken: ENABLED <<Process>>_vars
ProcessEnabled == pc = "process" /\ idx <= Len(issues)

\* the program is one thread that always takes its next step, and every
\* request ends: with a response, or with the timeout of sess.get.  The
\* last conjunct is WF_vars(Process), with its enabling condition written
\* out
FairRun ==
    /\ InitRetry
    /\ [][Next]_vars
    /\ WF_vars(RetryStep)
    /\ WF_vars(Main \/ ListLinkTypesSend \/ ListLinkTypesRecv
                \/ Combine \/ Return \/ Output)
    /\ ([]<>~ProcessEnabled \/ []<><<Process>>_vars)

-----------------------------------------------------------------------------
(* The waits of the retry loop of get_issue_details, under every header *)

\* one key whose issue has one edge, and a server that answers a 429 with
\* any of the headers
InitWait ==
    /\ args = [JIRA_USER_EMAIL |-> "set", JIRA_API_TOKEN |-> "set",
               output |-> "text", save |-> "None",
               list_link_types |-> FALSE, issue_keys |-> <<Keys[1]>>]
    /\ tracker = TrackerCycle
    /\ relation_names = LINK_TYPES_OF_INTEREST
    /\ retry_after = RetryAfterHeaders
    /\ pc = "main"
    /\ exit_code = -1
    /\ inflight = 0
    /\ attempt = 0
    /\ waits = <<>>
    /\ trace = <<>>
    /\ served = <<>>
    /\ all_issues = <<>>
    /\ next_page_token = 0
    /\ issues = <<>>
    /\ kidx = 1
    /\ idx = 1
    /\ main_info = Null
    /\ linked_refs = <<>>
    /\ ridx = 1
    /\ linked_issues = <<>>
    /\ results = <<>>
    /\ reported = <<>>
    /\ NoCall

NextWait ==
    \/ Main
    \/ KeySend
    \/ KeyRecv
    \/ Process
    \/ LinkedSend
    \/ LinkedRecv
    \/ Combine
    \/ Return
    \/ Output

SpecWait == InitWait /\ [][NextWait]_vars

-----------------------------------------------------------------------------
(* get_linked_issues on its own, over link lists of every shape *)

\* the other issue of a link entry: not in the entry, null, or an issue
InwardSides  == {"MISSING", "None", Keys[2]}
OutwardSides == {"MISSING", "None", Keys[3]}

LinkEntries ==
    [type : LinkTypes, inwardIssue : InwardSides, outwardIssue : OutwardSides]

LinkLists == UNION {[1..n -> LinkEntries] : n \in 0..MaxLinks}

\* the relation names: the configured ones, in both orders, one alone, and
\* one in capitals that is part of several labels
RelationNameLists ==
    {LINK_TYPES_OF_INTEREST,
     <<LINK_TYPES_OF_INTEREST[2], LINK_TYPES_OF_INTEREST[1]>>,
     <<LINK_TYPES_OF_INTEREST[2]>>,
     <<"Direct", "GOVERN">>}

InitResolve ==
    /\ args = [JIRA_USER_EMAIL |-> "set", JIRA_API_TOKEN |-> "set",
               output |-> "text", save |-> "None",
               list_link_types |-> FALSE, issue_keys |-> <<>>]
    /\ tracker = TrackerTree
    /\ relation_names \in RelationNameLists
    /\ retry_after = {"None"}
    /\ pc = "resolve"
    /\ exit_code = -1
    /\ inflight = 0
    /\ attempt = 0
    /\ waits = <<>>
    /\ trace = <<>>
    /\ served = <<>>
    /\ all_issues = <<>>
    /\ next_page_token = 0
    /\ \E links \in LinkLists :
          issues = <<[key |-> Keys[1],
                      fields |-> [summary |-> "Unit " \o Keys[1],
                                  issuelinks |-> links]]>>
    /\ kidx = 1
    /\ idx = 1
    /\ main_info = Null
    /\ linked_refs = <<>>
    /\ ridx = 1
    /\ linked_issues = <<>>
    /\ results = <<>>
    /\ reported = <<>>
    /\ NoCall

\* linked_refs = get_linked_issues(issue_data, LINK_TYPES_OF_INTEREST)
Resolve ==
    /\ pc = "resolve"
    /\ linked_refs' = get_linked_issues(issues[1], relation_names)
    /\ pc' = "resolved"
    /\ UNCHANGED <<config, alone, exit_code, inflight, attempt, waits, trace,
                   served,
                   all_issues, next_page_token, issues, kidx, idx, main_info,
                   ridx, linked_issues, results, reported>>

SpecResolve == InitResolve /\ [][Resolve]_vars

TypeOK ==
    /\ pc \in {"main", "list_link_types", "search", "fetch_keys", "process",
               "linked", "output", "exit", "resolve", "resolved", "call",
               "returned"}
    /\ exit_code \in {-1, 0, 1}
    /\ inflight \in {0, 1}
    /\ attempt \in 0..MaxAttempts

-----------------------------------------------------------------------------
(* The extract_* helpers and parse_checkbox on their own, over field values *)
(* of every shape                                                           *)

\* no run of main is under way: a function is applied on its own
Idle ==
    /\ args = [JIRA_USER_EMAIL |-> "set", JIRA_API_TOKEN |-> "set",
               output |-> "text", save |-> "None",
               list_link_types |-> FALSE, issue_keys |-> <<>>]
    /\ tracker = TrackerTree
    /\ relation_names = LINK_TYPES_OF_INTEREST
    /\ retry_after = {"None"}
    /\ pc = "call"
    /\ exit_code = -1
    /\ inflight = 0
    /\ attempt = 0
    /\ waits = <<>>
    /\ trace = <<>>
    /\ served = <<>>
    /\ all_issues = <<>>
    /\ next_page_token = 0
    /\ issues = <<>>
    /\ kidx = 1
    /\ idx = 1
    /\ main_info = Null
    /\ linked_refs = <<>>
    /\ ridx = 1
    /\ linked_issues = <<>>
    /\ results = <<>>
    /\ reported = <<>>

\* the state of a run of main but for pc
program == <<config, exit_code, inflight, attempt, waits, trace, pipeline,
             reported>>

\* the values a field holds that are no dict and no list
Scalars ==
    {Null, Str(""), Str("Yes"), Str("true"), Str("a@x.org; b@x.org,nobody"),
     Bool(TRUE), Bool(FALSE), Num("0"), Num("1")}

\* the keys the helpers look for, and what a dict holds under one
FieldNames == {"value", "name", "href", "url", "displayName",
               "emailAddress", "accountId"}
SubValues == {Null, Str("Yes"), Num("7")}

Dicts ==
    {Dict(f) : f \in UNION {[D -> SubValues] :
                               D \in {E \in SUBSET FieldNames :
                                          Cardinality(E) <= MaxFields}}}

Lists ==
    {List(items) : items \in UNION {[1..n -> Scalars \cup Dicts] :
                                       n \in 0..MaxItems}}

FieldValues == Scalars \cup Dicts \cup Lists

Normalizers == {"extract_user_info", "extract_emails", "extract_url_field",
                "extract_dropdown_value", "parse_checkbox"}

\* the call fn(x) and how it ends
Apply(fn, x) ==
    CASE fn = "extract_user_info"      -> Returns(extract_user_info(x))
      [] fn = "extract_emails"         -> Returns(extract_emails(x))
      [] fn = "extract_url_field"      -> Returns(extract_url_field(x))
      [] fn = "extract_dropdown_value" -> Returns(extract_dropdown_value(x))
      [] fn = "parse_checkbox"         ->
             LET r == parse_checkbox(x)
             IN  IF r.kind = "raise" THEN r ELSE Returns(r)

InitNormalize ==
    /\ Idle
    /\ call \in Normalizers
    /\ argument \in FieldValues
    /\ returned = "None"

Normalize ==
    /\ pc = "call"
    /\ call \in Normalizers
    /\ returned' = Apply(call, argument)
    /\ pc' = "returned"
    /\ UNCHANGED <<program, call, argument>>

SpecNormalize == InitNormalize /\ [][Normalize]_vars

-----------------------------------------------------------------------------
(* process_issue on its own, over raw issues of many shapes *)

\* what the person field of a role holds
PersonShapes ==
    {Null, Str("Ann"),
     Dict(("displayName" :> Str("Ann")) @@ ("emailAddress" :> Str("ann@x.org"))),
     Dict("displayName" :> Str("Ann")),
     Dict("emailAddress" :> Null),
     Dict("emailAddress" :> Str("bob@x.org")),
     Dict("emailAddress" :> Num("0")),
     List(<<Str("ann@x.org")>>)}

\* what the dedicated email field of a role holds
EmailShapes ==
    {Null, Str("ann@x.org"), Str("bob@x.org"), Str(""),
     Dict("emailAddress" :> Str("bob@x.org")),
     List(<<Str("ann@x.org")>>)}

\* what the checkbox field "Is Acting Chair?" holds
CheckboxShapes ==
    {Null, List(<<Dict("value" :> Str("Yes"))>>), Dict("value" :> Null)}

FieldsToBuild ==
    {("summary" :> "Unit") @@ (CF_CHAIR :> chair) @@ (CF_CHAIR_EMAIL :> email)
     @@ (CF_VICE_CHAIR :> vice) @@ (CF_VICE_CHAIR_EMAIL :> vice_email)
     @@ (CF_IS_ACTING_CHAIR :> acting) :
        chair \in PersonShapes, email \in EmailShapes,
        vice \in PersonShapes, vice_email \in EmailShapes,
        acting \in CheckboxShapes}

\* raw issues with and without the entry "key"
RawIssuesToBuild ==
    {[fields |-> f] : f \in FieldsToBuild}
    \cup {[key |-> Keys[1], fields |-> f] : f \in FieldsToBuild}

InitBuild ==
    /\ Idle
    /\ call = "process_issue"
    /\ argument \in RawIssuesToBuild
    /\ returned = "None"

Build ==
    /\ pc = "call"
    /\ call = "process_issue"
    /\ returned' = LET r == process_issue(argument)
                   IN  IF Raised(r) THEN r ELSE Returns(r)
    /\ pc' = "returned"
    /\ UNCHANGED <<program, call, argument>>

SpecBuild == InitBuild /\ [][Build]_vars

-----------------------------------------------------------------------------
(* save_grouped_csv on its own: the rows and their order *)

\* the characters of the strings compared, in the order of their code points
CodePointOrder ==
    " -0123456789ABCDEFGHIJKLMNOPQRSTUVWXYZabcdefghijklmnopqrstuvwxyz"

CodePoint ==
    [c \in {SubSeq(CodePointOrder, i, i) : i \in 1..Len(CodePointOrder)} |->
        CHOOSE i \in 1..Len(CodePointOrder) : SubSeq(CodePointOrder, i, i) = c]

\* a < b for two str
RECURSIVE StrLess(_, _)
StrLess(a, b) ==
    IF Len(b) = 0 THEN FALSE
    ELSE IF Len(a) = 0 THEN TRUE
    ELSE LET x == CodePoint[SubSeq(a, 1, 1)]
             y == CodePoint[SubSeq(b, 1, 1)]
         IN  IF x # y THEN x < y
             ELSE StrLess(SubSeq(a, 2, Len(a)), SubSeq(b, 2, Len(b)))

\* the key of rows.sort: (x["Linked Issue Summary"] or "zzz", x["Issue"])
SortKey(row) ==
    <<IF row.Linked_Issue_Summary = "" THEN "zzz"
      ELSE row.Linked_Issue_Summary,
      row.Issue>>

\* k1 < k2 for two keys of rows.sort
KeyLess(k1, k2) ==
    \/ StrLess(k1[1], k2[1])
    \/ k1[1] = k2[1] /\ StrLess(k1[2], k2[2])

\* the rows of one result: one per linked issue, or one with empty linked
\* columns; of the columns, the ones the order depends on
RowsOf(result) ==
    IF Len(result.linked_issues) > 0
    THEN [i \in 1..Len(result.linked_issues) |->
             [Issue |-> result.issue.key,
              Linked_Issue_Summary |-> result.linked_issues[i].summary]]
    ELSE <<[Issue |-> result.issue.key, Linked_Issue_Summary |-> ""]>>

\* the loop `for result in results`
RECURSIVE RowsOfAll(_, _)
RowsOfAll(res, n) ==
    IF n = 0 THEN <<>> ELSE RowsOfAll(res, n - 1) \o RowsOf(res[n])

\* row put into sorted rows, behind the rows whose key is not greater
RECURSIVE Insert(_, _)
Insert(row, sorted) ==
    IF Len(sorted) = 0 THEN <<row>>
    ELSE IF KeyLess(SortKey(row), SortKey(sorted[Len(sorted)]))
    THEN Append(Insert(row, SubSeq(sorted, 1, Len(sorted) - 1)),
                sorted[Len(sorted)])
    ELSE Append(sorted, row)

\* rows.sort(key=...): a stable sort of the first n rows
RECURSIVE Sort(_, _)
Sort(rows, n) ==
    IF n = 0 THEN <<>> ELSE Insert(rows[n], Sort(rows, n - 1))

\* the rows save_grouped_csv writes, in the order it writes them
save_grouped_csv(res) ==
    LET rows == RowsOfAll(res, Len(res))
    IN  Sort(rows, Len(rows))

\* the summaries of linked issues, and the linked issues of a result
LinkedSummaries == {"", "Alpha", "Zeta", "zzz-archive"}

LinkedOfResult ==
    {<<>>, <<[summary |-> "Zeta"], [summary |-> "Alpha"]>>}
    \cup {<<[summary |-> t]>> : t \in LinkedSummaries}

ResultsToSave ==
    UNION {[1..n -> [issue : {[key |-> k] : k \in {Keys[1], Keys[2], Keys[3]}},
                     linked_issues : LinkedOfResult]] :
              n \in 0..MaxResults}

InitCsv ==
    /\ Idle
    /\ call = "save_grouped_csv"
    /\ argument \in ResultsToSave
    /\ returned = "None"

SaveGroupedCsv ==
    /\ pc = "call"
    /\ call = "save_grouped_csv"
    /\ returned' = save_grouped_csv(argument)
    /\ pc' = "returned"
    /\ UNCHANGED <<program, call, argument>>

SpecCsv == InitCsv /\ [][SaveGroupedCsv]_vars

-----------------------------------------------------------------------------
(* Vocabulary of the properties *)

CredentialsSet == args.JIRA_USER_EMAIL # "None" /\ args.JIRA_API_TOKEN # "None"

\* the run is one that reaches fetch_and_process_issues
PipelineRun == CredentialsSet /\ ~args.list_link_types

SearchMode == PipelineRun /\ Len(args.issue_keys) = 0

KeyMode == PipelineRun /\ Len(args.issue_keys) > 0

IsSearch(e) == e.op = "search"

IsPrimaryGet(e) == e.op = "get" /\ e.for = 0

\* a request that retrieves primary issues
IsPrimary(e) == IsSearch(e) \/ IsPrimaryGet(e)

IsLinkedGet(e) == e.op = "get" /\ e.for > 0

\* the positions in trace of the search page requests
SearchRequests == {p \in DOMAIN trace : IsSearch(trace[p])}

\* the positions in trace of the getByKey requests for the explicit keys
PrimaryGets == {p \in DOMAIN trace : IsPrimaryGet(trace[p])}

\* a 4xx status other than 404, 410 and 429
NonRetryable(status) ==
    status \in 400..499 /\ status \notin {404, 410, 429}

\* the fetch of the primary issues is over
PrimaryPhaseOver == pc \in {"process", "linked", "output", "exit"}

\* fetch_and_process_issues has returned
PipelineOver == PipelineRun /\ pc \in {"output", "exit"}

\* the keys among issue_keys[1..n] whose getByKey was answered with an issue
RECURSIVE ResolvedKeys(_)
ResolvedKeys(n) ==
    IF n = 0 THEN <<>>
    ELSE ResolvedKeys(n - 1)
         \o (IF trace[n].status = 200 THEN <<args.issue_keys[n]>> ELSE <<>>)

SearchFailed == \E i \in DOMAIN reported : reported[i].what = "search"

\* the edges get_linked_issues resolves, with the configured relation names,
\* for each issue of each tracker
EdgesOfInterest ==
    [db \in Trackers |->
        [k \in DOMAIN db |->
            get_linked_issues(RawIssue(db, k), LINK_TYPES_OF_INTEREST)]]

\* the issues of pages 1..n, in page order
RECURSIVE Flatten(_, _)
Flatten(pages, n) ==
    IF n = 0 THEN <<>> ELSE Flatten(pages, n - 1) \o pages[n].issues

-----------------------------------------------------------------------------
(* C1: a search ends exactly when a page is answered without a continuation
   token.  While the search goes on every page answered so far carried a
   token; once it has ended without an error, the last page answered is the
   only one without a token, one page request was issued per page answered,
   and the issues returned are those of all the pages, in page order. *)
SearchEndsAtLastPage ==
    /\ (pc = "search" =>
           \A i \in DOMAIN served : served[i].token # 0)
    /\ (SearchMode /\ pc \notin {"main", "search"} /\ ~SearchFailed =>
           /\ Len(served) >= 1
           /\ served[Len(served)].token = 0
           /\ \A i \in 1..(Len(served) - 1) : served[i].token # 0
           /\ Cardinality(SearchRequests) = Len(served)
           /\ issues = Flatten(served, Len(served)))

\* a search over two non-empty pages has ended
SearchOverTwoPages ==
    /\ SearchMode /\ pc = "process" /\ ~SearchFailed
    /\ Len(served) = 2
    /\ Len(served[1].issues) > 0 /\ Len(served[2].issues) > 0
    /\ Len(issues) = Len(served[1].issues) + Len(served[2].issues)

-----------------------------------------------------------------------------
(* C2: the retries of a logical request are bounded.  Whatever statuses the
   server answers with, a request never makes more than MaxAttempts (6)
   attempts, and every request that has started ends: the attempt counter
   returns to 0, which is where the code leaves the retry loop with a final
   response, be it a success or a failure. *)
RetryBounded ==
    /\ [](attempt <= MaxAttempts)
    /\ ((attempt > 0) ~> (attempt = 0))

\* a request has failed with 429 after its last attempt
RetriesExhausted ==
    /\ attempt = 0
    /\ \E i \in DOMAIN reported : reported[i].status = 429
    /\ \E p \in DOMAIN trace : trace[p].status = 429

-----------------------------------------------------------------------------
(* C3: a search that fails on page k (a final status other than 200, be it
   a non-retryable status or 429 after the last attempt) does not raise.  It
   reports the error once, issues no page request after the failed one, and
   returns the issues of pages 1..k-1 in order; the run goes on with these
   issues and builds one result for each of them. *)
FailedSearchReturnsPages ==
    SearchFailed =>
        /\ pc \in {"process", "linked", "output", "exit"}
        /\ Cardinality({i \in DOMAIN reported :
                           reported[i].what = "search"}) = 1
        /\ Cardinality(SearchRequests) = Len(served) + 1
        /\ trace[Len(served) + 1].status \notin {0, 200}
        /\ issues = Flatten(served, Len(served))
        /\ (pc \in {"output", "exit"} => Len(results) = Len(issues))

\* the search has failed on its second page after a non-empty first page,
\* and the run has ended with results
SearchFailedOnSecondPage ==
    /\ SearchFailed
    /\ Len(served) = 1
    /\ Len(issues) > 0
    /\ pc = "exit"
    /\ Len(results) = Len(issues)

-----------------------------------------------------------------------------
(* C4, as stated: after a non-retryable error (a 4xx other than 404, 410 and
   429) on a request for primary issues, no further request for primary
   issues is issued, be it the next search page or the getByKey of a later
   key of the explicit key list; link resolution still runs for the primary
   issues fetched. *)
NonRetryableErrorEndsPrimaryPhase ==
    /\ \A p \in DOMAIN trace :
          IsPrimary(trace[p]) /\ NonRetryable(trace[p].status) =>
              \A q \in DOMAIN trace : q > p => ~IsPrimary(trace[q])
    /\ (PipelineOver => Len(results) = Len(issues))

(* C4, amended: a non-retryable error on a search page ends the search, no
   further page is requested.  On the getByKey of a key of the explicit key
   list it does not end the fetch phase: the key is skipped with a warning
   that names the status, and getByKey is issued for every key of the list,
   in order.  In both modes link resolution runs for every primary issue
   fetched. *)
NonRetryableErrorEndsSearchOnly ==
    /\ \A p \in SearchRequests :
          NonRetryable(trace[p].status) =>
              \A q \in DOMAIN trace : q > p => ~IsPrimary(trace[q])
    /\ \A p \in PrimaryGets :
          NonRetryable(trace[p].status) =>
              /\ \E i \in DOMAIN reported :
                    reported[i] = Said("warning", "error fetching",
                                       trace[p].key, trace[p].status, p)
              /\ \A i \in DOMAIN issues :
                    issues[i].key = trace[p].key =>
                        \E q \in PrimaryGets \ {p} :
                            trace[q].key = trace[p].key
    /\ (KeyMode /\ PrimaryPhaseOver =>
           /\ Cardinality(PrimaryGets) = Len(args.issue_keys)
           /\ \A k \in DOMAIN args.issue_keys :
                 IsPrimaryGet(trace[k]) /\ trace[k].key = args.issue_keys[k])
    /\ (PipelineOver => Len(results) = Len(issues))

\* the first key of the list was answered with 403, the second with an
\* issue, and the run has ended with that issue's result
LaterKeyFetchedAfterError ==
    /\ KeyMode /\ pc = "exit"
    /\ Len(args.issue_keys) = 2
    /\ NonRetryable(trace[1].status)
    /\ IsPrimaryGet(trace[2]) /\ trace[2].status = 200
    /\ Len(results) = 1
    /\ results[1].issue.key = args.issue_keys[2]

-----------------------------------------------------------------------------
(* C5: in a run over an explicit key list the issues fetched, and at the end
   the results, are those keys of the list whose getByKey was answered with
   an issue, in the order of the list; every key of the list is requested,
   and a key answered with 404 gets a "not found" warning and no entry. *)
NotFoundKeySkipped ==
    KeyMode /\ PrimaryPhaseOver =>
        LET n == Len(args.issue_keys)
        IN  /\ Cardinality(PrimaryGets) = n
            /\ \A k \in 1..n :
                  IsPrimaryGet(trace[k]) /\ trace[k].key = args.issue_keys[k]
            /\ [i \in DOMAIN issues |-> issues[i].key] = ResolvedKeys(n)
            /\ \A k \in 1..n :
                  trace[k].status = 404 =>
                      \E i \in DOMAIN reported :
                          reported[i] = Said("warning", "not found",
                                             args.issue_keys[k], 404, k)
            /\ (pc \in {"output", "exit"} =>
                   [i \in DOMAIN results |-> results[i].issue.key]
                       = ResolvedKeys(n))

\* an unknown key, answered with 404, then a key answered with an issue:
\* the run has ended with one result, for the second key
UnknownKeyThenKnownKey ==
    /\ KeyMode /\ pc = "exit"
    /\ args.issue_keys = <<UnknownKey, Keys[1]>>
    /\ trace[1].status = 404
    /\ trace[2].status = 200
    /\ Len(results) = 1
    /\ results[1].issue.key = Keys[1]
    /\ \E i \in DOMAIN reported : reported[i].what = "not found"

-----------------------------------------------------------------------------
(* C6: a failed fetch of a linked issue is never fatal.  When the pipeline
   has returned there is one result per primary issue, in order; for every
   primary issue a getByKey was issued for each of its edges, in edge order,
   whatever the earlier ones were answered with; every failed one was
   reported as a warning, and the primary's linked issues are as many as
   the edges answered with an issue. *)
FailedLinkOmitsOnlyItsEdge ==
    PipelineOver =>
        /\ Len(results) = Len(issues)
        /\ relation_names = LINK_TYPES_OF_INTEREST
        /\ \A i \in DOMAIN issues :
              LET edges == EdgesOfInterest[tracker][issues[i].key]
                  gets  == {p \in DOMAIN trace :
                               IsLinkedGet(trace[p]) /\ trace[p].for = i}
              IN  /\ issues[i] = RawIssue(tracker, issues[i].key)
                  /\ results[i].issue.key = issues[i].key
                  /\ Cardinality(gets) = Len(edges)
                  /\ \E b \in DOMAIN trace :
                        /\ trace[b].op = "build" /\ trace[b].for = i
                        /\ gets = (b + 1)..(b + Len(edges))
                        /\ \A j \in DOMAIN edges :
                              trace[b + j].key = edges[j].key
                  /\ \A p \in gets :
                        trace[p].status # 200 =>
                            \E w \in DOMAIN reported :
                                /\ reported[w].level = "warning"
                                /\ reported[w].key = trace[p].key
                                /\ reported[w].status = trace[p].status
                                /\ reported[w].at = p
                  /\ Len(results[i].linked_issues)
                        = Cardinality({p \in gets : trace[p].status = 200})

\* the first primary issue has two edges; the fetch for the first failed,
\* the one for the second did not, and a later primary issue has a result
SecondEdgeAttachedAfterFailure ==
    /\ PipelineOver
    /\ Len(results) >= 2
    /\ Len(EdgesOfInterest[tracker][issues[1].key]) = 2
    /\ Len(results[1].linked_issues) = 1
    /\ results[1].linked_issues[1].info.key
          = EdgesOfInterest[tracker][issues[1].key][2].key
    /\ \E p \in DOMAIN trace :
          /\ IsLinkedGet(trace[p]) /\ trace[p].for = 1
          /\ trace[p].status # 200
          /\ p + 1 \in DOMAIN trace
          /\ IsLinkedGet(trace[p + 1]) /\ trace[p + 1].for = 1
          /\ trace[p + 1].status = 200

-----------------------------------------------------------------------------
(* C7: get_linked_issues emits at most one edge per link entry, chosen by
   the first relation name, in the order given, that is a case-insensitive
   substring of the inward label of an entry that has an inwardIssue, or,
   failing this, of the outward label of an entry that has an outwardIssue.
   That name decides the side; later names are not looked at.  An entry no
   name matches yields no edge (nor does one whose chosen side is null), and
   the edges come in the order of the link list. *)

\* the relation names and the labels of the resolver's inputs
NamesGiven == UNION {{names[i] : i \in DOMAIN names} :
                        names \in RelationNameLists}
LabelsGiven == UNION {{t.inward, t.outward} : t \in LinkTypes}

\* is the name a case-insensitive substring of the label?
NameInLabel ==
    [name \in NamesGiven, label \in LabelsGiven |->
        StrIn(Lower(name), Lower(label))]

InwardHit(link, name) ==
    NameInLabel[name, link.type.inward] /\ link.inwardIssue # "MISSING"

OutwardHit(link, name) ==
    NameInLabel[name, link.type.outward] /\ link.outwardIssue # "MISSING"

\* the positions of the relation names that match the entry on a side
Hits(link, names) ==
    {i \in DOMAIN names : InwardHit(link, names[i]) \/ OutwardHit(link, names[i])}

\* the edge the entry is to yield, as a sequence of length 0 or 1
ExpectedEdge(link, names) ==
    LET hits == Hits(link, names)
    IN  IF hits = {} THEN <<>>
        ELSE LET first  == CHOOSE i \in hits : \A h \in hits : i <= h
                 inward == InwardHit(link, names[first])
                 other  == IF inward THEN link.inwardIssue
                           ELSE link.outwardIssue
             IN  IF other = "None" THEN <<>>
                 ELSE <<[key |-> other, link_type |-> link.type.name,
                         direction |-> IF inward THEN "inward"
                                       ELSE "outward"]>>

RECURSIVE ExpectedEdges(_, _, _)
ExpectedEdges(links, names, n) ==
    IF n = 0 THEN <<>>
    ELSE ExpectedEdges(links, names, n - 1) \o ExpectedEdge(links[n], names)

FirstMatchingNameDecides ==
    pc = "resolved" =>
        LET links == issues[1].fields.issuelinks
        IN  /\ Len(linked_refs) <= Len(links)
            /\ linked_refs = ExpectedEdges(links, relation_names, Len(links))

\* one entry whose inward label has the second configured name and whose
\* outward label has the first, with an issue on both sides: one edge, and
\* the first name decides for the outward side
BothLabelsMatchOneEdge ==
    /\ pc = "resolved"
    /\ relation_names = LINK_TYPES_OF_INTEREST
    /\ Len(issues[1].fields.issuelinks) = 1
    /\ issues[1].fields.issuelinks[1]
          = [type |-> Matrix, inwardIssue |-> Keys[2], outwardIssue |-> Keys[3]]
    /\ linked_refs = <<[key |-> Keys[3], link_type |-> "Matrix",
                        direction |-> "outward"]>>

-----------------------------------------------------------------------------
(* C8: the results are one per primary issue retrieved, in retrieval order,
   each with the record of its primary issue.  The linked issues of a result
   follow the order of the primary's raw link list: they map, in increasing
   order, to entries of that list whose type name and side they carry, and
   they are as many as the edges whose fetch was answered with an issue. *)

\* linked follows the order of links, each with its own entry's name and side
InLinkListOrder(linked, links) ==
    \E f \in [DOMAIN linked -> DOMAIN links] :
        /\ \A a, b \in DOMAIN linked : a < b => f[a] < f[b]
        /\ \A a \in DOMAIN linked :
              /\ linked[a].link_type = links[f[a]].type.name
              /\ \/ /\ linked[a].link_direction = "inward"
                    /\ linked[a].info.key = links[f[a]].inwardIssue
                 \/ /\ linked[a].link_direction = "outward"
                    /\ linked[a].info.key = links[f[a]].outwardIssue
              /\ linked[a].info = process_issue(RawIssue(tracker,
                                                         linked[a].info.key))

ResultsInRetrievalAndLinkOrder ==
    PipelineOver =>
        /\ Len(results) = Len(issues)
        /\ \A i \in DOMAIN results :
              /\ results[i].issue = process_issue(issues[i])
              /\ InLinkListOrder(results[i].linked_issues,
                                 issues[i].fields.issuelinks)
              /\ Len(results[i].linked_issues)
                    = Cardinality({p \in DOMAIN trace :
                                      /\ IsLinkedGet(trace[p])
                                      /\ trace[p].for = i
                                      /\ trace[p].status = 200})

\* two primary issues; the first has two linked issues of different link
\* types, around an entry of its link list that matched no relation name
TwoLinkedIssuesInOrder ==
    /\ PipelineOver
    /\ Len(results) >= 2
    /\ results[1].issue.key # results[2].issue.key
    /\ Len(issues[1].fields.issuelinks) = 3
    /\ Len(results[1].linked_issues) = 2
    /\ results[1].linked_issues[1].link_type = "Governance"
    /\ results[1].linked_issues[2].link_type = "Direct Line"

-----------------------------------------------------------------------------
(* C9 *)

\* the number of primary issues retrieved by the requests before position q
RECURSIVE RetrievedBefore(_)
RetrievedBefore(q) ==
    IF q <= 1 THEN 0
    ELSE RetrievedBefore(q - 1)
         + (IF IsPrimary(trace[q - 1]) THEN trace[q - 1].n ELSE 0)

\* requests are made one at a time, and the fetch of a linked issue of
\* primary issue i comes after the record of i is built and before anything
\* is built or fetched for a later primary issue
OneAtATimePerPrimary ==
    /\ inflight \in {0, 1}
    /\ \A q \in DOMAIN trace :
          IsLinkedGet(trace[q]) =>
              /\ \E b \in 1..(q - 1) :
                    trace[b].op = "build" /\ trace[b].for = trace[q].for
              /\ \A p \in 1..(q - 1) : trace[p].for <= trace[q].for

(* C9, as stated: requests are strictly sequential and ordered per primary
   issue; every fetch of a linked issue of primary issue i comes after the
   record of i is built and before anything for primary issue i+1 begins,
   the retrieval of primary issue i+1 included; no two requests are in
   flight at once. *)
LinkedFetchedBeforeNextPrimaryRetrieved ==
    /\ OneAtATimePerPrimary
    /\ \A q \in DOMAIN trace :
          IsLinkedGet(trace[q]) => RetrievedBefore(q) <= trace[q].for

(* C9, amended: requests are strictly sequential, no two are in flight at
   once.  All primary issues are retrieved first: no request for primary
   issues follows the building of a record.  Then, per primary issue in
   order, its record is built and its linked issues are fetched, each fetch
   after the record of its primary issue is built and before anything is
   built or fetched for the next primary issue. *)
PrimariesRetrievedThenLinkedPerPrimary ==
    /\ OneAtATimePerPrimary
    /\ \A p, q \in DOMAIN trace :
          p < q /\ trace[p].op = "build" => ~IsPrimary(trace[q])
    /\ \A p, q \in DOMAIN trace :
          p < q /\ trace[p].op = "build" /\ trace[q].op = "build" =>
              trace[p].for < trace[q].for

\* two primary issues were retrieved before a linked issue of the first was
\* fetched, and a linked issue of the second was fetched after it
LinkedFetchedForTwoPrimaries ==
    \E p, q \in DOMAIN trace :
        /\ p < q
        /\ IsLinkedGet(trace[p]) /\ trace[p].for = 1
        /\ IsLinkedGet(trace[q]) /\ trace[q].for = 2
        /\ RetrievedBefore(p) >= 2
        /\ inflight = 0

-----------------------------------------------------------------------------
(* C10: on a usage error (csv or grouped-csv output without a destination
   path, or missing credentials) the program ends with a non-zero exit
   status and the pipeline is never invoked: no search and no getByKey
   request is issued. *)
UsageError ==
    \/ ~CredentialsSet
    \/ args.output \in {"csv", "grouped-csv"} /\ args.save = "None"

UsageErrorNeverInvokesPipeline ==
    UsageError =>
        /\ \A p \in DOMAIN trace : trace[p].op \notin {"search", "get"}
        /\ (pc = "exit" => exit_code # 0)

-----------------------------------------------------------------------------
(* C11 *)

\* the number of seconds each header gives when it is read as an integer,
\* and the default wait for a header that is absent, empty or no integer
SecondsGiven ==
    ("None" :> DefaultWait) @@ ("" :> DefaultWait) @@ ("soon" :> DefaultWait)
    @@ ("3" :> 3) @@ ("12" :> 12) @@ ("0" :> 0) @@ ("-2" :> (0 - 2))

\* the same, with a wait of less than one second raised to one second
SecondsGivenAtLeastOne ==
    [h \in DOMAIN SecondsGiven |->
        IF SecondsGiven[h] < 1 THEN 1 ELSE SecondsGiven[h]]

\* there is one wait per 429 received in the current request
OneWaitPer429 == Len(waits) = IF attempt = 0 THEN 0 ELSE attempt - inflight

\* a step that ends a request with a 200 comes after one wait per earlier
\* attempt and delivers the issue of the 200
DataAfterWaits ==
    LET last == trace'[Len(trace')]
    IN  attempt > 0 /\ attempt' = 0 /\ last.status = 200 =>
            /\ Len(waits) = attempt - 1
            /\ last.n = 1
            /\ pc = "fetch_keys" =>
                   issues' = Append(issues, RawIssue(tracker, last.key))
            /\ pc = "linked" =>
                   /\ Len(linked_issues') = Len(linked_issues) + 1
                   /\ linked_issues'[Len(linked_issues')].info.key = last.key

(* C11, as stated: after a 429 the retry loop waits for the number of
   seconds the Retry-After header gives when it is an integer, and for the
   default wait (5) when the header is absent or no integer; there is one
   wait per 429, and the retried call returns the data of the 200. *)
WaitsAsRetryAfterSays ==
    /\ [](\A i \in DOMAIN waits :
             waits[i].slept = SecondsGiven[waits[i].header])
    /\ []OneWaitPer429
    /\ [][DataAfterWaits]_vars

(* C11, amended: after a 429 the retry loop waits for the number of seconds
   the Retry-After header gives when it is an integer, but for no less than
   one second (a header of 0 or of a negative number gives a wait of 1), and
   for the default wait (5) when the header is absent, empty or no integer;
   there is one wait per 429, so a 429 with Retry-After 3 followed by a 200
   gives exactly one wait, of 3 seconds, and the retried call returns the
   data of the 200. *)
WaitsAsRetryAfterSaysAtLeastOne ==
    /\ [](\A i \in DOMAIN waits :
             waits[i].slept = SecondsGivenAtLeastOne[waits[i].header])
    /\ []OneWaitPer429
    /\ [][DataAfterWaits]_vars

\* a 429 with Retry-After 3 was answered with one wait of 3 seconds and the
\* second attempt is on its way
RetriedAfterOneWaitOfThree ==
    /\ attempt = 2 /\ inflight = 1
    /\ waits = <<[header |-> "3", slept |-> 3]>>

-----------------------------------------------------------------------------
(* C12: every normalizer is total.  Whatever the shape of the field value
   (null, string, boolean, number, a dict with any values under its keys,
   a list of any elements, the empty list), the call of extract_user_info,
   extract_emails, extract_url_field, extract_dropdown_value or
   parse_checkbox ends with a value, never with an exception. *)
NormalizersNeverRaise ==
    pc = "returned" /\ call \in Normalizers => returned.kind = "return"

-----------------------------------------------------------------------------
(* C13: the rows of the grouped CSV are sorted by linked-issue summary, then
   by primary key, and every row whose linked-issue summary is empty comes
   after every row that has one, whatever the summaries are. *)
EmptySummariesSortLast ==
    pc = "returned" /\ call = "save_grouped_csv" =>
        \A i, j \in DOMAIN returned :
            i < j =>
                LET a == returned[i]
                    b == returned[j]
                IN  /\ ~(a.Linked_Issue_Summary = ""
                         /\ b.Linked_Issue_Summary # "")
                    /\ (a.Linked_Issue_Summary = "")
                          = (b.Linked_Issue_Summary = "") =>
                          ~KeyLess(<<b.Linked_Issue_Summary, b.Issue>>,
                                   <<a.Linked_Issue_Summary, a.Issue>>)

-----------------------------------------------------------------------------
\* process_issue has returned a record
Built == pc = "returned" /\ call = "process_issue" /\ returned.kind = "return"

(* C14: every record has a non-empty key.  process_issue on a raw issue
   without a key ends with an error and returns no record, it ends with an
   error in no other case, and so no record has an empty key. *)
BuildFailsOnlyWithoutKey ==
    pc = "returned" /\ call = "process_issue" =>
        /\ (returned.kind = "raise") = ("key" \notin DOMAIN argument)
        /\ returned.kind = "return" => returned.v.key # ""

-----------------------------------------------------------------------------
(* C15 *)

\* the email in the person reference: the entry emailAddress of a dict
EmbeddedEmail(person) ==
    IF person.kind = "dict" /\ "emailAddress" \in DOMAIN person.v
    THEN person.v["emailAddress"] ELSE Null

\* the email of a role, from the dedicated field and the person reference
FallbackEmail(dedicated, person) ==
    IF dedicated.kind = "str" THEN dedicated ELSE EmbeddedEmail(person)

(* C15: for the chair and for the vice-chair, the email of the record is the
   dedicated email field when that is a string, whatever the person
   reference holds; when it is no string (null, a dict, a list) the email is
   the one embedded in the person reference, or None when there is none. *)
RoleEmailFallsBackToPerson ==
    Built =>
        /\ returned.v.chair_email
              = FallbackEmail(argument.fields[CF_CHAIR_EMAIL],
                              argument.fields[CF_CHAIR])
        /\ returned.v.vice_chair_email
              = FallbackEmail(argument.fields[CF_VICE_CHAIR_EMAIL],
                              argument.fields[CF_VICE_CHAIR])

\* the chair's dedicated field is a dict and the email comes from the person
\* reference; the vice-chair's dedicated field is a string and wins over the
\* other email in the person reference
EmbeddedForChairDedicatedForVice ==
    /\ Built
    /\ argument.fields[CF_CHAIR_EMAIL].kind = "dict"
    /\ EmbeddedEmail(argument.fields[CF_CHAIR]) = Str("ann@x.org")
    /\ returned.v.chair_email = Str("ann@x.org")
    /\ argument.fields[CF_VICE_CHAIR_EMAIL] = Str("bob@x.org")
    /\ EmbeddedEmail(argument.fields[CF_VICE_CHAIR]) = Str("ann@x.org")
    /\ returned.v.vice_chair_email = Str("bob@x.org")

-----------------------------------------------------------------------------
(* C16 *)

\* the values among <<c, v>> that count (cp for c, vp for v), without a
\* second copy of the same value
WithoutDuplicate(c, cp, v, vp) ==
    IF cp /\ vp THEN (IF c = v THEN <<c>> ELSE <<c, v>>)
    ELSE IF cp THEN <<c>>
    ELSE IF vp THEN <<v>>
    ELSE <<>>

(* C16, as stated: emails is the duplicate-free sequence of the present
   values among <<chair_email, vice_chair_email>>, in that order, a value
   being present when it is not None. *)
EmailsArePresentValues ==
    Built =>
        returned.v.emails
            = WithoutDuplicate(returned.v.chair_email,
                               returned.v.chair_email # Null,
                               returned.v.vice_chair_email,
                               returned.v.vice_chair_email # Null)

(* C16, amended: emails is the duplicate-free sequence of the non-empty
   values among <<chair_email, vice_chair_email>>, in that order, a value
   being empty when it is None, the empty string or another value that
   counts as false: empty when both are empty, of length 1 when they are
   equal or only one is non-empty, and <<chair_email, vice_chair_email>>
   when both are non-empty and distinct. *)
EmailsAreNonEmptyValues ==
    Built =>
        LET c == returned.v.chair_email
            v == returned.v.vice_chair_email
        IN  /\ returned.v.emails
                  = WithoutDuplicate(c, Truthy(c), v, Truthy(v))
            /\ \A i, j \in DOMAIN returned.v.emails :
                  i # j => returned.v.emails[i] # returned.v.emails[j]
            /\ Len(returned.v.emails) <= 2

\* the two roles have the same email, from different fields, and it is in
\* emails once
SameEmailOnce ==
    /\ Built
    /\ argument.fields[CF_CHAIR_EMAIL] = Str("ann@x.org")
    /\ argument.fields[CF_VICE_CHAIR_EMAIL] = Null
    /\ returned.v.vice_chair_email = Str("ann@x.org")
    /\ returned.v.emails = <<Str("ann@x.org")>>

-----------------------------------------------------------------------------
(* C17 *)

\* the keys of the linked issues fetched for primary issue i by the first n
\* requests, in order
RECURSIVE LinkedKeysFor(_, _)
LinkedKeysFor(i, n) ==
    IF n = 0 THEN <<>>
    ELSE LinkedKeysFor(i, n - 1)
         \o (IF IsLinkedGet(trace[n]) /\ trace[n].for = i
             THEN <<trace[n].key>> ELSE <<>>)

\* the number of linked issues fetched for the primary issues 1..i
RECURSIVE LinkedFetches(_)
LinkedFetches(i) ==
    IF i = 0 THEN 0
    ELSE LinkedFetches(i - 1) + Len(LinkedKeysFor(i, Len(trace)))

\* the number of edges resolved from the primary issues 1..i
RECURSIVE EdgesResolved(_)
EdgesResolved(i) ==
    IF i = 0 THEN 0
    ELSE EdgesResolved(i - 1) + Len(EdgesOfInterest[tracker][issues[i].key])

\* the linked issues fetched are those of the edges of the primary issues,
\* one fetch per edge and in the order of the edges, and nothing else is
\* fetched once the primary issues are retrieved
FetchedPerEdgeOfPrimaries ==
    /\ \A q \in DOMAIN trace :
          IsLinkedGet(trace[q]) => trace[q].for \in DOMAIN issues
    /\ \A i \in DOMAIN issues :
          LET edges == EdgesOfInterest[tracker][issues[i].key]
              got   == LinkedKeysFor(i, Len(trace))
          IN  /\ Len(got) <= Len(edges)
              /\ \A j \in DOMAIN got : got[j] = edges[j].key
              /\ i < idx => Len(got) = Len(edges)
    /\ PipelineOver =>
          LinkedFetches(Len(issues)) = EdgesResolved(Len(issues))

\* once the primary issues are retrieved no issue is added to them, and no
\* request for primary issues is made
PrimarySetFixed ==
    PrimaryPhaseOver =>
        /\ issues' = issues
        /\ \A q \in DOMAIN trace' :
              q > Len(trace) => ~IsPrimary(trace'[q])

(* C17: link resolution is one level deep.  Once the primary issues are
   retrieved the run ends; the set of primary issues does not grow; the
   linked issues fetched for a primary issue are those of its own edges, one
   getByKey call per edge and in their order, so that at the end the number
   of linked getByKey calls is the number of edges resolved from the primary
   issues, a key being fetched again for every edge that leads to it; this
   with a cycle of links and with an issue linked to itself. *)
LinkResolutionOneLevelDeep ==
    /\ []FetchedPerEdgeOfPrimaries
    /\ [][PrimarySetFixed]_vars
    /\ (PrimaryPhaseOver ~> pc = "exit")

\* the run is over; RVG-1 and RVG-2 link to each other, RVG-2 with two edges:
\* RVG-2 was fetched once for RVG-1 and RVG-1 twice for RVG-2, once per edge,
\* and nothing was fetched for a linked issue
CycleFetchedOncePerEdge ==
    /\ pc = "exit"
    /\ tracker = TrackerCycle
    /\ Len(issues) = 3
    /\ LinkedKeysFor(1, Len(trace)) = <<Keys[2]>>
    /\ LinkedKeysFor(2, Len(trace)) = <<Keys[1], Keys[1]>>
    /\ LinkedKeysFor(3, Len(trace)) = <<>>
    /\ LinkedFetches(3) = 3
    /\ EdgesResolved(3) = 3

====
